---------------------------- MODULE Spec2Model ----------------------------
(***************************************************************************)
(* Model of the DomainList component                                       *)
(* (src/src/components/domains/DomainList/index.tsx).                      *)
(*                                                                         *)
(* The component keeps two pieces of React state, the domain list and the  *)
(* page cursor state, and has two asynchronous handlers, refresh and       *)
(* fetchNext, that issue a GraphQL query and write the state when the      *)
(* query settles.  A handler is modelled by two actions: the call (up to   *)
(* the await, where the query is issued and the closure's view of the      *)
(* state is captured) and the completion (from the settled query to the    *)
(* end of the handler).  The completion is one step: the .then/.catch      *)
(* callback of fetchData and the continuation of the handler run as        *)
(* consecutive microtasks, and no event handler can run between them.      *)
(*                                                                         *)
(* expiredAt, the relative-time formatter, is a pure function of the       *)
(* clock and the expiry timestamp; it is checked under SpecTime.           *)
(***************************************************************************)
EXTENDS Integers, Sequences

VARIABLES
    domains,    \* useState<Domain[]>: [def, items]; def = FALSE is undefined
    pageInfo,   \* useState<Page | null>
    inflight,   \* the handler calls suspended at their await, oldest first
    phase,      \* "constructed" | "mounted" | "unmounted"
    nfetch,     \* number of queries issued so far
    last,       \* what the last step did (history)
    now,        \* the clock read by expiredAt (seconds since 2000-01-01)
    expires,    \* the timestamp given to expiredAt
    shown,      \* what expiredAt returned for (now, expires)
    draw        \* how now and expires were drawn (history)

vars ==
    <<domains, pageInfo, inflight, phase, nfetch, last, now, expires, shown,
      draw>>
compVars == <<domains, pageInfo, inflight, phase, nfetch, last>>
timeVars == <<now, expires, shown, draw>>

---------------------------------------------------------------------------
(* Bounds of the model. *)

\* pages of the server's result set
NPages == 3
\* edges of a full page (the last page holds one edge)
MaxEdges == 2
\* handler calls suspended at their await at the same time
MaxInFlight == 2
\* queries issued in one behaviour
MaxFetches == 5
\* whole months an expiry timestamp lies before the clock
MaxMonths == 13

---------------------------------------------------------------------------
(* Calendar constants. *)

EpochYear == 2000
MinuteSecs == 60
HourSecs == 3600
DaySecs == 86400
\* years after EpochYear the instants of the model lie in
YearSpan == 8

---------------------------------------------------------------------------
(* JavaScript values. *)

\* a list value of the state / of a promise
Val(s) == [def |-> TRUE, items |-> s]
\* the value undefined where a list is expected
Undefined == [def |-> FALSE, items |-> <<>>]
\* the `after` argument left undefined
NoCursor == 0
\* pageInfo = null
Null == [isNull |-> TRUE, startCursor |-> 0, endCursor |-> 0,
         hasNextPage |-> FALSE, hasPreviousPage |-> FALSE]

---------------------------------------------------------------------------
(* The GraphQL service: one result set of NPages pages; the end cursor of  *)
(* page k is k, and a query after cursor k returns page k+1.               *)

PageLen(k) == IF k < NPages THEN MaxEdges ELSE 1

ServerEdges(k) ==
    [i \in 1..PageLen(k) |->
        [node |-> [id |-> 1000 + 10 * k + i,
                   name |-> 10 * k + i,
                   level |-> 2,
                   owner |-> 7,
                   expires |-> 500 + 10 * k + i]]]

ServerPageInfo(k) ==
    [isNull |-> FALSE, startCursor |-> k, endCursor |-> k,
     hasNextPage |-> k < NPages, hasPreviousPage |-> k > 1]

\* the page a query with this `after` asks for
PageAfter(after) == IF after = NoCursor THEN 1 ELSE after + 1

Outcomes == {"ok", "nodata", "reject"}

\* what client.query settles with
Response(after, outcome) ==
    [outcome |-> outcome,
     edges |-> IF outcome = "ok" THEN ServerEdges(PageAfter(after)) ELSE <<>>,
     pageInfo |-> IF outcome = "ok" THEN ServerPageInfo(PageAfter(after)) ELSE Null]

---------------------------------------------------------------------------
(* fetchData *)

\* the entries built in the reverse of the edges' order
MapEdgesReversed(edges) ==
    [i \in 1..Len(edges) |->
        [name |-> edges[Len(edges) + 1 - i].node.name,
         expires |-> edges[Len(edges) + 1 - i].node.expires]]

\* result.data.domains.edges.map(...)
MapEdges(edges) ==
    [i \in 1..Len(edges) |->
        [name |-> edges[i].node.name, expires |-> edges[i].node.expires]]

\* the catch handler returning nothing
FetchDataResultNoReturn(resp) ==
    CASE resp.outcome = "ok" -> Val(MapEdges(resp.edges))
      [] resp.outcome = "nodata" -> Undefined
      [] resp.outcome = "reject" -> Undefined

\* the value fetchData's promise resolves with
FetchDataResult(resp) ==
    CASE resp.outcome = "ok" -> Val(MapEdges(resp.edges))
      [] resp.outcome = "nodata" -> Undefined
      [] resp.outcome = "reject" -> Val(<<>>)

\* the page cursor state after fetchData's .then / .catch
FetchDataPageInfo(resp, cur) ==
    IF resp.outcome = "ok" THEN resp.pageInfo ELSE cur

---------------------------------------------------------------------------
(* moment: instants are whole seconds since 2000-01-01T00:00:00 in a zone  *)
(* with a constant UTC offset.                                             *)

IsLeap(y) == (y % 4 = 0 /\ y % 100 # 0) \/ y % 400 = 0

DaysInMonth(y, m) ==
    IF m = 2 THEN (IF IsLeap(y) THEN 29 ELSE 28)
    ELSE IF m \in {4, 6, 9, 11} THEN 30 ELSE 31

\* leap years before year y
LeapsBefore(y) == ((y - 1) \div 4) - ((y - 1) \div 100) + ((y - 1) \div 400)

DaysBeforeYear(y) ==
    365 * (y - EpochYear) + LeapsBefore(y) - LeapsBefore(EpochYear)

\* days of year y before its month m
DaysBeforeMonth(y, m) ==
    <<0, 31, 59, 90, 120, 151, 181, 212, 243, 273, 304, 334>>[m]
        + (IF m > 2 /\ IsLeap(y) THEN 1 ELSE 0)

\* the instant of a calendar date and time of day
ToSecs(c) ==
    (DaysBeforeYear(c.y) + DaysBeforeMonth(c.y, c.m) + (c.d - 1)) * DaySecs + c.s

\* the calendar date and time of day of an instant
FromSecs(t) ==
    LET days == t \div DaySecs
        y == CHOOSE yy \in EpochYear..(EpochYear + YearSpan) :
                 DaysBeforeYear(yy) <= days /\ days < DaysBeforeYear(yy + 1)
        doy == days - DaysBeforeYear(y)
        m == CHOOSE mm \in 1..12 :
                 /\ DaysBeforeMonth(y, mm) <= doy
                 /\ doy < DaysBeforeMonth(y, mm) + DaysInMonth(y, mm)
    IN  [y |-> y, m |-> m, d |-> doy - DaysBeforeMonth(y, m) + 1,
         s |-> t % DaySecs]

\* moment#add(n, 'months'): the day of the month is clamped to the target
\* month's length, the time of day is kept
AddMonths(c, n) ==
    LET idx == c.y * 12 + (c.m - 1) + n
        y == idx \div 12
        m == (idx % 12) + 1
        d == IF c.d < DaysInMonth(y, m) THEN c.d ELSE DaysInMonth(y, m)
    IN  [y |-> y, m |-> m, d |-> d, s |-> c.s]

\* absFloor: rounds toward zero
TruncDiv(n, d) == IF n >= 0 THEN n \div d ELSE -((-n) \div d)

\* monthDiff(a, b) for a.date() >= b.date(), as the fraction num / den
MonthDiffCore(a, b) ==
    LET whole == (b.y - a.y) * 12 + (b.m - a.m)
        anchor == ToSecs(AddMonths(a, whole))
        tb == ToSecs(b)
        den == IF tb - anchor < 0
               THEN anchor - ToSecs(AddMonths(a, whole - 1))
               ELSE ToSecs(AddMonths(a, whole + 1)) - anchor
    IN  [num |-> -(whole * den + (tb - anchor)), den |-> den]

\* moment's monthDiff(a, b): from moment 2.22 on the operands are swapped
\* when a's day of the month is the smaller one (the end-of-month rule)
MonthDiff(a, b) ==
    IF a.d < b.d
    THEN LET r == MonthDiffCore(b, a) IN [num |-> -r.num, den |-> r.den]
    ELSE MonthDiffCore(a, b)

Units == <<"years", "months", "days", "hours", "minutes", "seconds">>

\* moment(this).diff(moment(that), unit)
Diff(this, that, unit) ==
    LET md == MonthDiff(FromSecs(this), FromSecs(that))
    IN  CASE unit = "years" -> TruncDiv(md.num, 12 * md.den)
          [] unit = "months" -> TruncDiv(md.num, md.den)
          [] unit = "days" -> TruncDiv(this - that, DaySecs)
          [] unit = "hours" -> TruncDiv(this - that, HourSecs)
          [] unit = "minutes" -> TruncDiv(this - that, MinuteSecs)
          [] unit = "seconds" -> this - that

\* the text `expired ${n} ${unit} ago` of the branch taken
Ago(branch, n, unit) == [branch |-> branch, n |-> n, unit |-> unit]

JustNow == [branch |-> "just now", n |-> 0, unit |-> "just now"]

\* the branches of expiredAt in the order it tries them: the unit of the
\* diff, and the unit named in the text
Branches ==
    <<[diff |-> "years", text |-> "months"],
      [diff |-> "months", text |-> "months"],
      [diff |-> "days", text |-> "days"],
      [diff |-> "hours", text |-> "hours"],
      [diff |-> "minutes", text |-> "minutes"],
      [diff |-> "seconds", text |-> "seconds"]>>

\* the first branch from i on whose diff is at least 1
RECURSIVE FirstBranch(_, _, _)
FirstBranch(t, e, i) ==
    IF i > Len(Branches) THEN JustNow
    ELSE LET n == Diff(t, e, Branches[i].diff)
         IN  IF n >= 1 THEN Ago(Branches[i].diff, n, Branches[i].text)
             ELSE FirstBranch(t, e, i + 1)

\* expiredAt(expires) with the clock at t
ExpiredAt(t, e) == FirstBranch(t, e, 1)

---------------------------------------------------------------------------
(* refresh, fetchNext *)

\* refresh appending to the current list, as fetchNext does
RefreshArgAppend(cur, ret) == Val(cur.items \o ret.items)

\* setDomains(domains) of refresh
RefreshArg(cur, ret) == ret

\* the guard without its hasNextPage test
CanFetchNextNotNull(p) == ~p.isNull

\* the guard of fetchNext
CanFetchNext(p) == ~p.isNull /\ p.hasNextPage

\* [...a, ...b] throws a TypeError when a or b is undefined
SpreadThrows(a, b) == ~a.def \/ ~b.def

\* setDomains([...domains, ...items]) of fetchNext
FetchNextArg(captured, items) == Val(captured.items \o items.items)

\* the render reads domains.length and domains.map
RenderThrows(d) == ~d.def

NoCall == [kind |-> "none", after |-> NoCursor, captured |-> Undefined,
           overlap |-> FALSE]

Idle == [op |-> "init", call |-> NoCall, resp |-> Response(NoCursor, "reject"),
         ret |-> Undefined, called |-> FALSE, arg |-> Undefined,
         threw |-> FALSE, before |-> Val(<<>>), beforePage |-> Null]

InitComp ==
    /\ domains = Val(<<>>)
    /\ pageInfo = Null
    /\ inflight = <<>>
    /\ phase = "constructed"
    /\ nfetch = 0
    /\ last = Idle

InitTimeIdle ==
    /\ now = 0
    /\ expires = 0
    /\ shown = [branch |-> "none", n |-> 0, unit |-> "none"]
    /\ draw = [fixed |-> "now", base |-> 0, months |-> 0, idx |-> 1]

Init == InitComp /\ InitTimeIdle

RemoveAt(s, i) == SubSeq(s, 1, i - 1) \o SubSeq(s, i + 1, Len(s))

HasKind(k) == \E i \in 1..Len(inflight) : inflight[i].kind = k

\* the query is issued and the handler suspends at its await
Issue(kind, after, captured) ==
    /\ Len(inflight) < MaxInFlight
    /\ nfetch < MaxFetches
    /\ inflight' = Append(inflight,
                      [kind |-> kind, after |-> after, captured |-> captured,
                       overlap |-> HasKind("fetchNext")])
    /\ nfetch' = nfetch + 1

\* useEffect(() => { refresh(); }, [refresh]) after the first render
MountEffect ==
    /\ phase = "constructed"
    /\ Issue("refresh", NoCursor, domains)
    /\ phase' = "mounted"
    /\ last' = [Idle EXCEPT !.op = "refresh"]
    /\ UNCHANGED <<domains, pageInfo>>
    /\ UNCHANGED timeVars

\* refreshFunction={refresh}: pull down to refresh
Refresh ==
    /\ phase = "mounted"
    /\ Issue("refresh", NoCursor, domains)
    /\ last' = [Idle EXCEPT !.op = "refresh"]
    /\ UNCHANGED <<domains, pageInfo, phase>>
    /\ UNCHANGED timeVars

\* next={fetchNext}
FetchNext ==
    /\ phase = "mounted"
    /\ IF CanFetchNext(pageInfo)
       THEN /\ Issue("fetchNext", pageInfo.endCursor, domains)
            /\ last' = [Idle EXCEPT !.op = "fetchNext", !.before = domains,
                                    !.beforePage = pageInfo]
       ELSE /\ last' = [Idle EXCEPT !.op = "fetchNextNoop", !.before = domains,
                                    !.beforePage = pageInfo]
            /\ UNCHANGED <<inflight, nfetch>>
    /\ UNCHANGED <<domains, pageInfo, phase>>
    /\ UNCHANGED timeVars

\* a state update of an unmounted component is dropped
SetState(cur, new) == IF phase = "mounted" THEN new ELSE cur

\* the query of call i settles and its handler runs to the end
Complete(i, outcome) ==
    LET call == inflight[i]
        resp == Response(call.after, outcome)
        ret == FetchDataResult(resp)
        threw == call.kind = "fetchNext" /\ SpreadThrows(call.captured, ret)
        arg == IF call.kind = "refresh" THEN RefreshArg(domains, ret)
               ELSE IF threw THEN Undefined
               ELSE FetchNextArg(call.captured, ret)
        newDomains == IF threw THEN domains ELSE SetState(domains, arg)
    IN  /\ inflight' = RemoveAt(inflight, i)
        /\ pageInfo' = SetState(pageInfo, FetchDataPageInfo(resp, pageInfo))
        /\ domains' = newDomains
        /\ phase' = IF phase = "mounted" /\ RenderThrows(newDomains)
                    THEN "unmounted" ELSE phase
        /\ last' = [op |-> "complete", call |-> call, resp |-> resp,
                    ret |-> ret, called |-> ~threw, arg |-> arg,
                    threw |-> threw, before |-> domains,
                    beforePage |-> pageInfo]
        /\ UNCHANGED nfetch
        /\ UNCHANGED timeVars

Settle == \E i \in 1..Len(inflight) : \E o \in Outcomes : Complete(i, o)

Next ==
    \/ MountEffect
    \/ Refresh
    \/ FetchNext
    \/ Settle

Spec == Init /\ [][Next]_vars


---------------------------------------------------------------------------
(* The formatter on its own: the clock and the timestamp are drawn from    *)
(* bounded sets, and every step renders a timestamp of a greater age,      *)
(* either an older timestamp at the same clock reading or the same         *)
(* timestamp at a later clock reading.                                     *)

At(y, m, d, s) == ToSecs([y |-> y, m |-> m, d |-> d, s |-> s])

\* the instants the draws start from: month ends, a leap day, a year start
Bases ==
    {At(2003, 3, 31, 0), At(2004, 2, 29, 45296), At(2003, 1, 1, 30),
     At(2003, 12, 31, 86399)}

\* seconds between the timestamp and the clock, in increasing order (a
\* negative one puts the timestamp after the clock)
SecOffsets ==
    <<-DaySecs, -1, 0, 1, 30, 59, MinuteSecs, 10 * MinuteSecs, HourSecs - 1,
      HourSecs, 5 * HourSecs, DaySecs - 1, DaySecs, 3 * DaySecs, 27 * DaySecs,
      28 * DaySecs, 30 * DaySecs, 31 * DaySecs>>

\* moment(t).subtract(months, 'months').subtract(secs, 'seconds')
FromNow(t, months, secs) == ToSecs(AddMonths(FromSecs(t), -months)) - secs

\* moment(t).add(months, 'months').add(secs, 'seconds')
After(t, months, secs) == ToSecs(AddMonths(FromSecs(t), months)) + secs

Draws ==
    [fixed : {"now", "expires"}, base : Bases, months : 0..MaxMonths,
     idx : 1..Len(SecOffsets)]

NowOf(dr) ==
    IF dr.fixed = "now" THEN dr.base
    ELSE After(dr.base, dr.months, SecOffsets[dr.idx])

ExpiresOf(dr) ==
    IF dr.fixed = "now" THEN FromNow(dr.base, dr.months, SecOffsets[dr.idx])
    ELSE dr.base

\* the row drawn is rendered
Render(dr) ==
    /\ draw' = dr
    /\ now' = NowOf(dr)
    /\ expires' = ExpiresOf(dr)
    /\ shown' = ExpiredAt(now', expires')
    /\ UNCHANGED compVars

InitTime ==
    /\ InitComp
    /\ draw \in Draws
    /\ now = NowOf(draw)
    /\ expires = ExpiresOf(draw)
    /\ shown = ExpiredAt(now, expires)

\* the age grows by a calendar month
MonthOlder ==
    /\ draw.months < MaxMonths
    /\ Render([draw EXCEPT !.months = @ + 1])

\* the age grows to the next offset in seconds
SecondsOlder ==
    /\ draw.idx < Len(SecOffsets)
    /\ Render([draw EXCEPT !.idx = @ + 1])

NextTime ==
    \/ MonthOlder
    \/ SecondsOlder

SpecTime == InitTime /\ [][NextTime]_vars

---------------------------------------------------------------------------
(* Claims about the component, checked under Spec. *)

Completed == last.op = "complete"
CompletedKind(k) == Completed /\ last.call.kind = k

RECURSIVE PagesUpTo(_)
\* the entries of server pages 1..k, in server order
PagesUpTo(k) ==
    IF k = 0 THEN <<>> ELSE PagesUpTo(k - 1) \o MapEdges(ServerEdges(k))

\* C1: once a fetchNext's fetch completes with a page, the list is the list
\* as it was immediately before the completion followed by that page's
\* entries, whatever the interleaving of refresh and fetchNext.
C1_AppendsToListBeforeCompletion ==
    (CompletedKind("fetchNext") /\ last.resp.outcome = "ok" /\ phase = "mounted")
        => domains = Val(last.before.items \o MapEdges(last.resp.edges))

\* C2: a fetchNext called while the page info is null or has no next page
\* issues no query and leaves the list and the page cursor state unchanged.
C2_FetchNextNoop ==
    [][(/\ phase = "mounted"
        /\ last'.op \in {"fetchNext", "fetchNextNoop"}
        /\ (pageInfo.isNull \/ ~pageInfo.hasNextPage))
       => (/\ domains' = domains
           /\ pageInfo' = pageInfo
           /\ inflight' = inflight
           /\ nfetch' = nfetch)]_vars

C2_Witness ==
    /\ last.op = "fetchNextNoop"
    /\ ~pageInfo.isNull
    /\ ~pageInfo.hasNextPage
    /\ Len(domains.items) > 0
    /\ nfetch < MaxFetches
    /\ Len(inflight) < MaxInFlight

\* C3 as stated: after the handler of any fetch whose query rejects, the
\* list is empty and the handler did not throw.
C3_EmptyAfterFailure ==
    (Completed /\ last.resp.outcome = "reject" /\ phase = "mounted")
        => (domains = Val(<<>>) /\ ~last.threw)

\* C3 as amended: when the query rejects the handler does not throw; a
\* refresh sets the list to the empty list, a fetchNext sets it to the list
\* it captured when it was called (nothing is appended).
C3_FailureAddsNothing ==
    (Completed /\ last.resp.outcome = "reject")
        => (/\ ~last.threw
            /\ last.called
            /\ last.arg = IF last.call.kind = "refresh" THEN Val(<<>>)
                          ELSE last.call.captured
            /\ (phase = "mounted" => domains = last.arg))

C3_Witness ==
    /\ CompletedKind("fetchNext")
    /\ last.resp.outcome = "reject"
    /\ phase = "mounted"
    /\ Len(last.call.captured.items) > 0
    /\ domains = last.call.captured

\* C4: after any fetch completes, the stored page info is the one of that
\* fetch (none, for a fetch that brought no page), never one left over from
\* an earlier fetch.
C4_PageInfoOfCompletedFetch ==
    (Completed /\ phase = "mounted")
        => pageInfo = (IF last.resp.outcome = "ok"
                       THEN ServerPageInfo(PageAfter(last.call.after))
                       ELSE Null)

\* C5: at most one fetch issued by the component is in flight.
C5_AtMostOneInFlight == Len(inflight) <= 1

\* C6: when a refresh completes with a page, the list is exactly the
\* entries of the first page of the result set, requested with no cursor,
\* whatever the list was before and whatever else is in flight.
C6_RefreshReplaces ==
    (CompletedKind("refresh") /\ last.resp.outcome = "ok")
        => (/\ last.call.after = NoCursor
            /\ last.called
            /\ last.arg = Val(MapEdges(ServerEdges(1)))
            /\ (phase = "mounted" => domains = last.arg))

C6_Witness ==
    /\ CompletedKind("refresh")
    /\ last.resp.outcome = "ok"
    /\ last.call.overlap
    /\ phase = "mounted"
    /\ Len(last.before.items) > PageLen(1)
    /\ domains = Val(MapEdges(ServerEdges(1)))

\* C7: for a successful response the list fetchData returns has the length
\* of the response's edges, and its i-th entry has the name and expires of
\* the i-th edge's node.
C7_MappedList ==
    (Completed /\ last.resp.outcome = "ok")
        => (/\ last.ret.def
            /\ Len(last.ret.items) = Len(last.resp.edges)
            /\ \A i \in 1..Len(last.resp.edges) :
                  /\ last.ret.items[i].name = last.resp.edges[i].node.name
                  /\ last.ret.items[i].expires = last.resp.edges[i].node.expires)

C7_Witness ==
    /\ Completed
    /\ last.resp.outcome = "ok"
    /\ Len(last.resp.edges) >= 2
    /\ last.ret.items[2].name = ServerEdges(PageAfter(last.call.after))[2].node.name

\* C9: the list in the state is always a list, never undefined, and no
\* handler throws while building it.
C9_ListAlwaysDefined == domains.def /\ ~last.threw

\* C10: the displayed list is the concatenation of server pages 1..k for
\* some k, and when no fetch is in flight the stored end cursor is the
\* cursor of page k (no page info at all for k = 0).
C10_ConsecutivePages ==
    phase # "unmounted" =>
        \E k \in 0..NPages :
            /\ domains = Val(PagesUpTo(k))
            /\ inflight = <<>> =>
                  IF k = 0 THEN pageInfo.isNull
                  ELSE ~pageInfo.isNull /\ pageInfo.endCursor = k

---------------------------------------------------------------------------
(* Claims about expiredAt, checked under SpecTime. *)

\* how coarse a bucket is
Rank(b) ==
    CASE b = "just now" -> 0
      [] b = "seconds" -> 1
      [] b = "minutes" -> 2
      [] b = "hours" -> 3
      [] b = "days" -> 4
      [] b = "months" -> 5
      [] b = "years" -> 6

\* the units, coarsest first, whose whole-unit difference is at least 1
UnitsReached ==
    {i \in 1..Len(Units) : Diff(now, expires, Units[i]) >= 1}

\* the bucket of the coarsest unit reached
C8_Selection ==
    IF UnitsReached = {} THEN shown.branch = "just now"
    ELSE LET i == CHOOSE j \in UnitsReached : \A k \in UnitsReached : j <= k
         IN  /\ shown.branch = Units[i]
             /\ shown.n = Diff(now, expires, Units[i])

\* the six ages the specification names
C8_Examples ==
    /\ expires = now - 30 => shown.branch = "seconds"
    /\ expires = now - 10 * MinuteSecs => shown.branch = "minutes"
    /\ expires = now - 5 * HourSecs => shown.branch = "hours"
    /\ expires = now - 3 * DaySecs => shown.branch = "days"
    /\ expires = FromNow(now, 2, 0) => shown.branch = "months"
    /\ expires = FromNow(now, 13, 0) => shown.branch = "years"

\* a step in which the age grows
AgeGrows ==
    \/ now' = now /\ expires' <= expires
    \/ expires' = expires /\ now' >= now

\* C8: expiredAt takes the bucket of the coarsest unit, in the order years,
\* months, days, hours, minutes, seconds, whose whole-unit difference
\* between the clock and the timestamp is at least 1, and 'expired just now'
\* when none is; ages of 30 seconds, 10 minutes, 5 hours, 3 days, 2 months
\* and 13 months fall in the seconds, minutes, hours, days, months and years
\* buckets; and the bucket never becomes finer as the age grows.
C8_ExpiredAtBuckets ==
    /\ [](C8_Selection /\ C8_Examples)
    /\ [][AgeGrows => Rank(shown'.branch) >= Rank(shown.branch)]_vars

=============================================================================
